---- MODULE Spec2Model ----
(***************************************************************************)
(* Retrieval-and-answer pipeline, ingestion and deletion of the RAG system. *)
(*                                                                         *)
(* The store holds documents, chunks and query-log rows.  One              *)
(* answer_question request at a time walks through its suspension points   *)
(* (document lookup, retrieval, answer composition, audit-log write,       *)
(* return).  Remote services (embedding model, language model, data store) *)
(* answer or fail nondeterministically.                                    *)
(*                                                                         *)
(* Spec          the answer_question requests over a fixed store           *)
(* SpecRetrieve  one call of retrieve_relevant_chunks with its arguments    *)
(* SpecIngest    upload_document and delete_document requests, interleaved *)
(* SpecChunking  one call of chunk_text                                    *)
(* SpecBatch     one call of embed_batch                                   *)
(*                                                                         *)
(* Texts are sequences of symbols; scores and distances are in hundredths. *)
(***************************************************************************)
EXTENDS Integers, Sequences, FiniteSets, TLC

\* ------------------------------------------------------------------ bounds
NumChunks == 2          \* chunk rows the store may hold
MaxQuestionLen == 1     \* longest question text, in symbols
MaxRequests == 1        \* requests served in one behaviour
MaxAnswerLen == 2       \* longest language-model answer, in symbols
MaxTokens == 1          \* largest token-usage figure reported by the model
MaxUploads == 1         \* upload_document requests served in one behaviour
MaxDeletes == 1         \* delete_document requests served in one behaviour
MaxPages == 2           \* pages of the dictionary handed to chunk_text
MaxTexts == 3           \* texts of the list handed to embed_batch
MaxItems == 2           \* items of the list handed to format_context_from_chunks

\* -------------------------------------------------------------- universes
None == "None"
DocIds == {"d1", "d2"}
ChunkIds == 1..NumChunks
NULL == -1
\* embedding vectors are unit vectors named by their angle in steps of 30 degrees
StoredEmbeddings == {0, 3}
QueryEmbeddings == {0, 1}
TopKValues == {1, 2}
\* the top_k and min_similarity (in hundredths) a caller of retrieval may pass
TopKArguments == {0, 1, 2}
MinScoreArguments == {0, 50, 88, 101}
MinSimilarityArguments == {0, 30, 90}
RemoteMsgs == {"timeout", "refused"}
\* values of int((time.time() - start_time) * 1000)
ResponseTimes == {0, 1}
Chars == {" ", "q"}
\* page texts: empty, blank, one word, one decomposed accented letter, words
\* between runs of whitespace, and a text longer than four characters
PageTexts ==
    {<<>>, <<" ", "\n">>, <<"a">>, <<"e", "COMBINING ACUTE">>,
     <<" ", "b", "\n", " ", "c">>, <<"d", "e", " ", "f", "g">>}
\* ChunkingService(chunk_size, chunk_overlap): a small one and the settings' one
ChunkingServices ==
    {[chunk_size |-> 1, chunk_overlap |-> 0], [chunk_size |-> 600, chunk_overlap |-> 100]}
ChunkSizeArguments == {0, 1}
\* texts and batch sizes handed to embed_batch
BatchTexts == {<<>>, <<" ">>, <<"a">>, <<"b">>}
BatchSizes == {0, 1, 2}
\* names and sizes (in megabytes) of the files a client may upload
Filenames == {"a.pdf", "a.PDF", "a.txt"}
FileSizes == {50, 51}

RECURSIVE SeqsUpTo(_, _)
SeqsUpTo(S, n) ==
    IF n = 0 THEN {<<>>}
    ELSE LET shorter == SeqsUpTo(S, n - 1)
         IN  shorter \cup {Append(s, x) : s \in {t \in shorter : Len(t) = n - 1}, x \in S}

Questions == SeqsUpTo(Chars, MaxQuestionLen)

\* ------------------------------------------------------ program constants
\* Settings.top_k_results
top_k_results == 5

\* Settings.min_similarity_threshold (0.3), in hundredths
min_similarity == 30

\* `char_chunk_size = chunk_size * 4`
CharsPerToken == 4

NO_VALID_TEXTS_MSG == <<"No hay textos validos para generar embeddings">>
RANGE_STEP_ZERO_MSG == <<"range() arg 3 must not be zero">>
OVERLAP_LARGER_MSG == <<"Got a larger chunk overlap than chunk size, should be smaller.">>

\* validate_file_size(file_size, max_size_mb=50)
max_size_mb == 50

INVALID_FILE_TYPE_MSG == <<"Solo se aceptan archivos .pdf. Recibido: ">>
FILE_SIZE_EXCEEDED_MSG == <<"Tamano maximo permitido: 50MB. Archivo recibido: ">>
PDF_PROCESSING_MSG == <<"No se pudo procesar el archivo PDF.">>
EMBED_BATCH_ERROR_PREFIX == <<"Error al generar embeddings en batch: ">>
PROCESSING_ERROR_PREFIX == <<"Error procesando documento: ">>

EMPTY_QUESTION_MSG == <<"No se puede responder pregunta vacia">>
EMPTY_QUERY_MSG == <<"No se puede buscar con consulta vacia">>
EMPTY_EMBED_TEXT_MSG == <<"No se puede generar embedding de texto vacio">>
EMPTY_PROMPT_MSG == <<"No se puede generar respuesta con prompt vacio">>
EMBED_ERROR_PREFIX == <<"Error al generar embedding: ">>
LLM_ERROR_PREFIX == <<"Error al generar respuesta del LLM: ">>
RETRIEVAL_ERROR_PREFIX == <<"Error al recuperar chunks relevantes: ">>
ANSWER_ERROR_PREFIX == <<"Error al responder pregunta: ">>
TUPLE_HAS_NO_GET_MSG == <<"'tuple' object has no attribute 'get'">>

NO_RELEVANT_INFO_ANSWER == <<"Lo siento, no encontre informacion relevante en el documento para responder tu pregunta.">>
NO_CONTEXT_TEXT == <<"No se encontro informacion relevante en el documento.">>
SYSTEM_PROMPT_TEMPLATE == <<"Eres un asistente util ...">>

\* the refusal phrase, as two symbols so that a text may hold only a part of it
NOT_ANSWERABLE_PHRASE == <<"Lo siento, esa informacion", "no se encuentra en el documento">>
AnswerSymbols == {"Lo siento, esa informacion", "no se encuentra en el documento", "otro"}

\* ------------------------------------------------------------- exceptions
\* the classes of utils/exceptions.py, all deriving from RAGSystemError
RAGSystemErrorClasses ==
    {"RAGSystemError", "DocumentNotFoundError", "InvalidFileTypeError",
     "FileSizeExceededError", "PDFProcessingError", "EmbeddingServiceError",
     "LLMServiceError"}

Exc(cls, msg) == [cls |-> cls, msg |-> msg]
NoExc == Exc("None", <<>>)

\* isinstance(e, RAGSystemError)
IsRAGSystemError(e) == e.cls \in RAGSystemErrorClasses

\* --------------------------------------------------- optional arguments
\* an argument left at its default None, and one the caller supplied
Absent == [given |-> FALSE, value |-> NULL]
Given(v) == [given |-> TRUE, value |-> v]

\* ------------------------------------------------------------------ texts
\* the whitespace characters of the texts
Whitespace == {" ", "\n"}

\* `not s or not s.strip()`
IsBlankNoStrip(s) == s = <<>>
IsBlank(s) == \A i \in 1..Len(s) : s[i] \in Whitespace

\* `phrase in text`
Contains(text, phrase) ==
    \E i \in 0..(Len(text) - Len(phrase)) :
        \A j \in 1..Len(phrase) : text[i + j] = phrase[j]

\* ------------------------------------------------------------------ state
VARIABLES
    docs,               \* ids of the rows of table documents
    chunks,             \* table chunks: ChunkIds -> row or NoChunk
    queryLogs,          \* table query_logs, in insertion order
    top_k,              \* RetrievalService.top_k (Settings.top_k_results)
    pc,                 \* position of the current answer_question request
    question,           \* argument question
    document_id,        \* argument document_id (None when absent)
    log_document_id,    \* local log_document_id
    chunks_with_scores, \* local chunks_with_scores
    pending,            \* locals answer, is_answerable, tokens_used, chunk_ids
    outcome,            \* what the caller received: a response or an error
    raised,             \* the exception that entered answer_question's except clause
    calls,              \* calls issued by the current request, per collaborator
    failed,             \* collaborators whose call failed in the current request
    llm,                \* what the language model returned to the current request
    logged,             \* the QueryLog entity the current request tried to store
    requests,           \* requests started so far
    docRows,            \* table documents: DocIds -> row or NoDoc
    issued,             \* document ids handed out so far (uuid4 never repeats)
    upload,             \* the current upload_document request and its locals
    deletion,           \* the current delete_document request and its locals
    call,               \* the function call under examination, with its arguments
    result              \* what that call returned or raised, and the calls it issued

vars == <<docs, chunks, queryLogs, top_k, pc, question, document_id,
          log_document_id, chunks_with_scores, pending, outcome, raised,
          calls, failed, llm, logged, requests, docRows, issued, upload,
          deletion, call, result>>

storeVars == <<docs, chunks, top_k>>
requestVars == <<pc, question, document_id, log_document_id,
                 chunks_with_scores, pending, outcome, raised, calls, failed,
                 llm, logged, requests>>
ingestVars == <<docRows, issued, upload, deletion>>
callVars == <<call, result>>

NoChunk == [document_id |-> None, embedding |-> NULL, chunk_index |-> NULL]
NoCalls == [lookup |-> 0, embed |-> 0, search |-> 0, llm |-> 0, log |-> 0]
NoOutcome == [kind |-> "none"]
NoLLM == [called |-> FALSE]
NoEntity == [document_id |-> None]
\* a row of table documents (models/document.py), and the absent row
DocumentRow(status, error_message, total_chunks) ==
    [status |-> status, error_message |-> error_message, total_chunks |-> total_chunks]
NoDoc == DocumentRow("none", <<>>, NULL)
NoUpload == [pc |-> "idle", n |-> 0, document |-> None, temp_file |-> "none",
             embeddings |-> <<>>,
             created |-> 0, exc |-> NoExc, failed |-> {}, http |-> "none"]
NoDeletion == [pc |-> "idle", n |-> 0, document_id |-> None, exc |-> NoExc,
               http |-> "none"]
NoCall == [op |-> "none"]
NoResult == [op |-> "none"]

\* ----------------------------------------------------------- vector store
\* cosine of the angle between two unit vectors, in hundredths
Cos(k) ==
    LET d == IF k > 6 THEN 12 - k ELSE k
    IN  CASE d = 0 -> 100 [] d = 1 -> 87 [] d = 2 -> 50 [] d = 3 -> 0
          [] d = 4 -> -50 [] d = 5 -> -87 [] d = 6 -> -100

\* pgvector's `a <=> b`
CosineDistance(a, b) == 100 - Cos(IF a >= b THEN a - b ELSE b - a)

\* `1 - (embedding <=> %s::vector) AS similarity`
Similarity(a, b) == 100 - CosineDistance(a, b)

\* the WHERE clause of the two queries of similarity_search
CandidatesOfAnyDocument(embedding, min_score, doc) ==
    {c \in ChunkIds :
        /\ chunks[c] # NoChunk
        /\ chunks[c].embedding # NULL
        /\ Similarity(chunks[c].embedding, embedding) >= min_score}
Candidates(embedding, min_score, doc) ==
    {c \in ChunkIds :
        /\ chunks[c] # NoChunk
        /\ doc # None => chunks[c].document_id = doc
        /\ chunks[c].embedding # NULL
        /\ Similarity(chunks[c].embedding, embedding) >= min_score}

Min(a, b) == IF a <= b THEN a ELSE b

\* ORDER BY embedding <=> %s::vector LIMIT %s: every row order the database
\* may produce (rows at equal distance come in any order)
OrderedRowsFarthestFirst(embedding, k, cand) ==
    {s \in SeqsUpTo(cand, Min(k, Cardinality(cand))) :
        /\ Len(s) = Min(k, Cardinality(cand))
        /\ \A i, j \in 1..Len(s) : i # j => s[i] # s[j]
        /\ \A i, j \in 1..Len(s) : i < j =>
               CosineDistance(chunks[s[i]].embedding, embedding)
                   >= CosineDistance(chunks[s[j]].embedding, embedding)
        /\ \A c \in cand : (\A i \in 1..Len(s) : s[i] # c) =>
               \A i \in 1..Len(s) :
                   CosineDistance(chunks[s[i]].embedding, embedding)
                       >= CosineDistance(chunks[c].embedding, embedding)}
OrderedRows(embedding, k, cand) ==
    {s \in SeqsUpTo(cand, Min(k, Cardinality(cand))) :
        /\ Len(s) = Min(k, Cardinality(cand))
        /\ \A i, j \in 1..Len(s) : i # j => s[i] # s[j]
        /\ \A i, j \in 1..Len(s) : i < j =>
               CosineDistance(chunks[s[i]].embedding, embedding)
                   <= CosineDistance(chunks[s[j]].embedding, embedding)
        /\ \A c \in cand : (\A i \in 1..Len(s) : s[i] # c) =>
               \A i \in 1..Len(s) :
                   CosineDistance(chunks[s[i]].embedding, embedding)
                       <= CosineDistance(chunks[c].embedding, embedding)}

\* a row converted to the Python tuple (Chunk, similarity)
RowTuple(c, embedding) ==
    [type |-> "tuple",
     chunk |-> [id |-> c, document_id |-> chunks[c].document_id],
     score |-> Similarity(chunks[c].embedding, embedding)]

\* the lists similarity_search may return
SimilaritySearchResults(embedding, k, min_score, doc) ==
    {[i \in 1..Len(s) |-> RowTuple(s[i], embedding)] :
        s \in OrderedRows(embedding, k, Candidates(embedding, min_score, doc))}

\* ------------------------------------------------------------- the prompt
Ok(v) == [ok |-> TRUE, value |-> v]
Raises(e) == [ok |-> FALSE, exc |-> e]

\* `chunk.get(...)` exists on a dict only
HasGet(item) == item.type = "dict"

RECURSIVE ContextParts(_, _)
ContextParts(items, i) ==
    IF i > Len(items) THEN <<>>
    ELSE (IF i > 1 THEN <<"\n\n">> ELSE <<>>)
         \o <<"[Fragmento", ToString(i), "- Pagina", ToString(items[i].page_number), "]">>
         \o items[i].content
         \o ContextParts(items, i + 1)

format_context_from_chunks(items) ==
    IF items = <<>> THEN Ok(NO_CONTEXT_TEXT)
    ELSE IF \E i \in 1..Len(items) : ~HasGet(items[i])
         THEN Raises(Exc("AttributeError", TUPLE_HAS_NO_GET_MSG))
         ELSE Ok(ContextParts(items, 1))

\* f"{SYSTEM_PROMPT_TEMPLATE}\n\nContexto:\n{context}\n\nPregunta: {question}"
BuildPrompt(context, q) ==
    SYSTEM_PROMPT_TEMPLATE \o <<"Contexto:">> \o context \o <<"Pregunta:">> \o q

\* -------------------------------------------------------------- responses
\* RAGResponse(...) of the branch `if not chunks_with_scores`
EmptyResultAnswerableLocals ==
    [answer |-> NO_RELEVANT_INFO_ANSWER, is_answerable |-> TRUE,
     tokens_used |-> 0, chunk_ids |-> <<>>, retrieved_chunks_count |-> 0]
EmptyResultLocals ==
    [answer |-> NO_RELEVANT_INFO_ANSWER, is_answerable |-> FALSE,
     tokens_used |-> 0, chunk_ids |-> <<>>, retrieved_chunks_count |-> 0]

\* is_answerable, chunk_ids and the RAGResponse of the branch that called the model
AnsweredLocals(items, text, tokens) ==
    [answer |-> text,
     is_answerable |-> ~Contains(text, NOT_ANSWERABLE_PHRASE),
     tokens_used |-> tokens,
     chunk_ids |-> [i \in 1..Len(items) |-> items[i].chunk.id],
     retrieved_chunks_count |-> Len(items)]

NoPending == [answer |-> <<>>, is_answerable |-> FALSE, tokens_used |-> 0,
              chunk_ids |-> <<>>, retrieved_chunks_count |-> 0]

\* QueryLog(...) built by _log_query
QueryLogEntity(doc, q, p, ms) ==
    [document_id |-> doc, query_text |-> q, answer_text |-> p.answer,
     retrieved_chunks |-> [i \in 1..Len(p.chunk_ids) |-> ToString(p.chunk_ids[i])],
     is_answerable |-> p.is_answerable, response_time_ms |-> ms]

\* ------------------------------------------------------- exception clauses
\* embed_text: `except Exception as e: raise EmbeddingServiceError(...)`
EmbedTextExcept(e) == Exc("EmbeddingServiceError", EMBED_ERROR_PREFIX \o e.msg)

\* generate_answer: `except Exception as e: raise LLMServiceError(...)`
GenerateAnswerExcept(e) == Exc("LLMServiceError", LLM_ERROR_PREFIX \o e.msg)

\* retrieve_relevant_chunks: domain errors pass, the others are wrapped
RetrieveExceptNeverWraps(e) == e
RetrieveExceptAlwaysWraps(e) == Exc("RAGSystemError", RETRIEVAL_ERROR_PREFIX \o e.msg)
RetrieveExcept(e) ==
    IF IsRAGSystemError(e) THEN e
    ELSE Exc("RAGSystemError", RETRIEVAL_ERROR_PREFIX \o e.msg)

\* answer_question: domain errors pass, the others are wrapped
AnswerQuestionExceptNeverWraps(e) == e
AnswerQuestionExcept(e) ==
    IF IsRAGSystemError(e) THEN e
    ELSE Exc("RAGSystemError", ANSWER_ERROR_PREFIX \o e.msg)

\* an exception reaches the except clause of answer_question and leaves it
RaiseFromAnswerQuestion(e) ==
    /\ pc' = "done"
    /\ raised' = e
    /\ outcome' = [kind |-> "error", err |-> AnswerQuestionExcept(e)]

\* ------------------------------------------------------------------- Init
ChunkRows(ds) ==
    [document_id : ds, embedding : StoredEmbeddings \cup {NULL},
     chunk_index : 0..(NumChunks - 1)]

\* no answer_question request has started
RequestIdle ==
    /\ pc = "idle"
    /\ question = <<>>
    /\ document_id = None
    /\ log_document_id = None
    /\ chunks_with_scores = <<>>
    /\ pending = NoPending
    /\ outcome = NoOutcome
    /\ raised = NoExc
    /\ calls = NoCalls
    /\ failed = {}
    /\ llm = NoLLM
    /\ logged = NoEntity
    /\ requests = 0

\* no upload_document or delete_document request has started
IngestIdle == upload = NoUpload /\ deletion = NoDeletion

\* no function call is under examination
CallIdle == call = NoCall /\ result = NoResult

\* the chunks a document owns
ChunksOf(d) == {c \in ChunkIds : chunks[c] # NoChunk /\ chunks[c].document_id = d}

\* a store of documents whose ingestion completed, with their chunks
StoreReady ==
    /\ docs \in SUBSET DocIds
    /\ chunks \in [ChunkIds -> ChunkRows(docs) \cup {NoChunk}]
    \* chunk ids are opaque: the rows present take the first ids
    /\ \A c \in ChunkIds : (c > 1 /\ chunks[c] # NoChunk) => chunks[c - 1] # NoChunk
    \* the chunks of a document were inserted in the order of their chunk_index
    /\ \A c \in ChunkIds : chunks[c] # NoChunk =>
           chunks[c].chunk_index =
               Cardinality({x \in ChunksOf(chunks[c].document_id) : x < c})
    /\ docRows = [d \in DocIds |->
                     IF d \in docs
                     THEN DocumentRow("ready", <<>>, Cardinality(ChunksOf(d)))
                     ELSE NoDoc]
    /\ issued = docs
    /\ queryLogs = <<>>
    /\ top_k \in TopKValues

\* an empty store
StoreEmpty ==
    /\ docs = {}
    /\ chunks = [c \in ChunkIds |-> NoChunk]
    /\ docRows = [d \in DocIds |-> NoDoc]
    /\ issued = {}
    /\ queryLogs = <<>>
    /\ top_k = top_k_results

Init == StoreReady /\ RequestIdle /\ IngestIdle /\ CallIdle

\* ---------------------------------------------------------------- remotes
\* EmbeddingService.embed_text: the results and errors it may produce
embed_text(text) ==
    IF IsBlank(text)
    THEN {[called |-> FALSE,
           res |-> Raises(Exc("EmbeddingServiceError", EMPTY_EMBED_TEXT_MSG))]}
    ELSE {[called |-> TRUE, res |-> Ok(e)] : e \in QueryEmbeddings}
         \cup {[called |-> TRUE, res |-> Raises(EmbedTextExcept(Exc("APIError", <<m>>)))] :
                  m \in RemoteMsgs}

\* VectorRepository.similarity_search: the lists it may return, or the
\* driver's exception, re-raised as it is
similarity_search(embedding, k, min_score, doc) ==
    {Ok(l) : l \in SimilaritySearchResults(embedding, k, min_score, doc)}
    \cup {Raises(Exc("OperationalError", <<m>>)) : m \in RemoteMsgs}

\* `k = top_k if top_k is not None else self.top_k`
TopKOrDefaultUnlessFalsy(k) == IF k.given /\ k.value # 0 THEN k.value ELSE top_k
TopKOrDefault(k) == IF k.given THEN k.value ELSE top_k

\* `min_score = min_similarity if min_similarity is not None else self.min_similarity`
MinSimilarityOrDefault(ms) == IF ms.given THEN ms.value ELSE min_similarity

\* the keyword arguments of the call of similarity_search
SearchKwargs(k, min_score, doc) ==
    [top_k |-> k, min_score |-> min_score, document_id |-> doc]
NoKwargs == SearchKwargs(NULL, NULL, None)

\* retrieve_relevant_chunks as it would be with one retry of a failed embedding
retrieve_relevant_chunksRetrying(query, k, ms, doc) ==
    IF IsBlank(query)
    THEN {[embed |-> 0, search |-> 0, failed |-> {}, kwargs |-> NoKwargs,
           res |-> Raises(Exc("RAGSystemError", EMPTY_QUERY_MSG))]}
    ELSE UNION {
        IF ~e.res.ok
        THEN {[embed |-> IF e.called THEN 2 ELSE 0, search |-> 0,
               failed |-> IF e.called THEN {"embed"} ELSE {},
               kwargs |-> NoKwargs,
               res |-> Raises(RetrieveExcept(e.res.exc))]}
        ELSE {[embed |-> 1, search |-> 1,
               failed |-> IF r.ok THEN {} ELSE {"search"},
               kwargs |-> SearchKwargs(TopKOrDefault(k), MinSimilarityOrDefault(ms), doc),
               res |-> IF r.ok THEN r ELSE Raises(RetrieveExcept(r.exc))] :
                 r \in similarity_search(e.res.value, TopKOrDefault(k),
                                         MinSimilarityOrDefault(ms), doc)}
        : e \in embed_text(query)}

\* RetrievalService.retrieve_relevant_chunks: embeds the query, searches, and
\* maps exceptions through its except clause
retrieve_relevant_chunks(query, k, ms, doc) ==
    IF IsBlank(query)
    THEN {[embed |-> 0, search |-> 0, failed |-> {}, kwargs |-> NoKwargs,
           res |-> Raises(Exc("RAGSystemError", EMPTY_QUERY_MSG))]}
    ELSE UNION {
        IF ~e.res.ok
        THEN {[embed |-> IF e.called THEN 1 ELSE 0, search |-> 0,
               failed |-> IF e.called THEN {"embed"} ELSE {},
               kwargs |-> NoKwargs,
               res |-> Raises(RetrieveExcept(e.res.exc))]}
        ELSE {[embed |-> 1, search |-> 1,
               failed |-> IF r.ok THEN {} ELSE {"search"},
               kwargs |-> SearchKwargs(TopKOrDefault(k), MinSimilarityOrDefault(ms), doc),
               res |-> IF r.ok THEN r ELSE Raises(RetrieveExcept(r.exc))] :
                 r \in similarity_search(e.res.value, TopKOrDefault(k),
                                         MinSimilarityOrDefault(ms), doc)}
        : e \in embed_text(query)}

\* LLMService.generate_answer: the results and errors it may produce
generate_answer(prompt) ==
    IF IsBlank(prompt)
    THEN {[called |-> FALSE,
           res |-> Raises(Exc("LLMServiceError", EMPTY_PROMPT_MSG))]}
    ELSE {[called |-> TRUE, res |-> Ok([text |-> t, tokens |-> n])] :
             t \in SeqsUpTo(AnswerSymbols, MaxAnswerLen), n \in 0..MaxTokens}
         \cup {[called |-> TRUE, res |-> Raises(GenerateAnswerExcept(Exc("APIError", <<m>>)))] :
                  m \in RemoteMsgs}

\* ---------------------------------------------------------------- actions
\* `log_document_id = document_id`
InitialLogDocumentIdIgnored(d) == None
InitialLogDocumentId(d) == d

\* `if log_document_id: await self._log_query(...)` of the empty-result branch
AfterEmptyResultNoLog(logdoc) == "return"
AfterEmptyResult(logdoc) == IF logdoc # None THEN "log" ELSE "return"

\* `if log_document_id: await self._log_query(...)` of the answered branch
AfterAnswer(logdoc) == IF logdoc # None THEN "log" ELSE "return"

\* answer_question up to its first suspension point: the validation of the
\* question and the choice of log_document_id
AnswerQuestion(q, d) ==
    /\ pc \in {"idle", "done"}
    /\ requests < MaxRequests
    /\ requests' = requests + 1
    /\ question' = q
    /\ document_id' = d
    /\ log_document_id' = InitialLogDocumentId(d)
    /\ chunks_with_scores' = <<>>
    /\ pending' = NoPending
    /\ raised' = NoExc
    /\ calls' = NoCalls
    /\ failed' = {}
    /\ llm' = NoLLM
    /\ logged' = NoEntity
    /\ IF IsBlank(q)
       THEN /\ pc' = "done"
            /\ outcome' = [kind |-> "error",
                           err |-> Exc("RAGSystemError", EMPTY_QUESTION_MSG)]
       ELSE /\ pc' = IF InitialLogDocumentId(d) = None THEN "lookup" ELSE "retrieve"
            /\ outcome' = NoOutcome
    /\ UNCHANGED <<storeVars, ingestVars, callVars, queryLogs>>

\* _get_first_document_id: list_all(limit=1) without ORDER BY returns any
\* one row; an exception of the store yields None
GetFirstDocumentId ==
    /\ pc = "lookup"
    /\ calls' = [calls EXCEPT !.lookup = @ + 1]
    /\ \E r \in {"fails"} \cup (IF docs = {} THEN {None} ELSE docs) :
          /\ log_document_id' = IF r = "fails" THEN None ELSE r
          /\ failed' = IF r = "fails" THEN failed \cup {"lookup"} ELSE failed
    /\ pc' = "retrieve"
    /\ UNCHANGED <<storeVars, ingestVars, callVars, queryLogs, question, document_id,
                   chunks_with_scores, pending, outcome, raised, llm, logged,
                   requests>>

\* the call of retrieve_relevant_chunks and the test `if not chunks_with_scores`
RetrieveChunks ==
    /\ pc = "retrieve"
    /\ \E r \in retrieve_relevant_chunks(question, Absent, Absent, document_id) :
          /\ calls' = [calls EXCEPT !.embed = @ + r.embed, !.search = @ + r.search]
          /\ failed' = failed \cup r.failed
          /\ IF ~r.res.ok
             THEN /\ RaiseFromAnswerQuestion(r.res.exc)
                  /\ UNCHANGED <<chunks_with_scores, pending>>
             ELSE /\ chunks_with_scores' = r.res.value
                  /\ IF r.res.value = <<>>
                     THEN /\ pending' = EmptyResultLocals
                          /\ pc' = AfterEmptyResult(log_document_id)
                     ELSE /\ pending' = pending
                          /\ pc' = "compose"
                  /\ UNCHANGED <<outcome, raised>>
    /\ UNCHANGED <<storeVars, ingestVars, callVars, queryLogs, question, document_id,
                   log_document_id, llm, logged, requests>>

\* context, prompt, generate_answer, is_answerable and chunk_ids
ComposeAnswer ==
    /\ pc = "compose"
    /\ LET context == format_context_from_chunks(chunks_with_scores)
       IN  IF ~context.ok
           THEN /\ RaiseFromAnswerQuestion(context.exc)
                /\ UNCHANGED <<calls, failed, llm, pending>>
           ELSE \E g \in generate_answer(BuildPrompt(context.value, question)) :
                   /\ calls' = [calls EXCEPT !.llm = @ + (IF g.called THEN 1 ELSE 0)]
                   /\ IF ~g.res.ok
                      THEN /\ RaiseFromAnswerQuestion(g.res.exc)
                           /\ failed' = IF g.called THEN failed \cup {"llm"} ELSE failed
                           /\ UNCHANGED <<llm, pending>>
                      ELSE /\ llm' = [called |-> TRUE, text |-> g.res.value.text,
                                      tokens |-> g.res.value.tokens]
                           /\ pending' = AnsweredLocals(chunks_with_scores,
                                             g.res.value.text, g.res.value.tokens)
                           /\ pc' = AfterAnswer(log_document_id)
                           /\ UNCHANGED <<failed, outcome, raised>>
    /\ UNCHANGED <<storeVars, ingestVars, callVars, queryLogs, question, document_id,
                   log_document_id, chunks_with_scores, logged, requests>>

\* _log_query: `except Exception as e: logger.error(...)` lets nothing out
LogQueryExceptRethrows(e) == e
LogQueryExcept(e) == NoExc

\* _log_query: the insert fails when the store fails or when document_id
\* names no row of documents (foreign key of query_logs)
LogQuery ==
    /\ pc = "log"
    /\ calls' = [calls EXCEPT !.log = @ + 1]
    /\ \E ms \in ResponseTimes, storeOk \in BOOLEAN :
          LET entity == QueryLogEntity(log_document_id, question, pending, ms)
              exc == IF ~storeOk THEN Exc("OperationalError", <<"store">>)
                     ELSE IF entity.document_id \notin docs
                          THEN Exc("IntegrityError", <<"foreign key">>)
                          ELSE NoExc
              out == IF exc = NoExc THEN NoExc ELSE LogQueryExcept(exc)
          IN  /\ logged' = entity
              /\ queryLogs' = IF exc = NoExc THEN Append(queryLogs, entity) ELSE queryLogs
              /\ failed' = IF exc = NoExc THEN failed ELSE failed \cup {"log"}
              /\ IF out = NoExc
                 THEN pc' = "return" /\ UNCHANGED <<outcome, raised>>
                 ELSE RaiseFromAnswerQuestion(out)
    /\ UNCHANGED <<storeVars, ingestVars, callVars, question, document_id, log_document_id,
                   chunks_with_scores, pending, llm, requests>>

\* `return RAGResponse(...)`
ReturnResponseDroppingChunks ==
    /\ pc = "return"
    /\ pc' = "done"
    /\ outcome' = [kind |-> "response", resp |-> pending]
    /\ chunks' = [c \in ChunkIds |-> NoChunk]
    /\ UNCHANGED <<docs, top_k, ingestVars, callVars, queryLogs, question,
                   document_id, log_document_id, chunks_with_scores, pending,
                   raised, calls, failed, llm, logged, requests>>
ReturnResponseRaising ==
    /\ pc = "return"
    /\ RaiseFromAnswerQuestion(Exc("ValueError", <<"response">>))
    /\ UNCHANGED <<storeVars, ingestVars, callVars, queryLogs, question, document_id,
                   log_document_id, chunks_with_scores, pending, calls,
                   failed, llm, logged, requests>>
ReturnResponse ==
    /\ pc = "return"
    /\ pc' = "done"
    /\ outcome' = [kind |-> "response", resp |-> pending]
    /\ UNCHANGED <<storeVars, ingestVars, callVars, queryLogs, question, document_id,
                   log_document_id, chunks_with_scores, pending, raised, calls,
                   failed, llm, logged, requests>>

Next ==
    \/ \E q \in Questions, d \in DocIds \cup {None} : AnswerQuestion(q, d)
    \/ GetFirstDocumentId
    \/ RetrieveChunks
    \/ ComposeAnswer
    \/ LogQuery
    \/ ReturnResponse

Spec == Init /\ [][Next]_vars

\* ------------------------------------------- retrieval with its arguments
\* the calls retrieve_relevant_chunks(query, top_k, min_similarity, document_id)
RetrieveCalls ==
    [op : {"retrieve_relevant_chunks"},
     query : Questions,
     top_k : {Absent} \cup {Given(v) : v \in TopKArguments},
     min_similarity : {Absent} \cup {Given(v) : v \in MinSimilarityArguments},
     document_id : DocIds \cup {None}]

InitRetrieve ==
    StoreReady /\ RequestIdle /\ IngestIdle /\ call \in RetrieveCalls /\ result = NoResult

RetrieveRelevantChunks ==
    /\ call.op = "retrieve_relevant_chunks"
    /\ result = NoResult
    /\ \E r \in retrieve_relevant_chunks(call.query, call.top_k,
                                         call.min_similarity, call.document_id) :
          result' = [op |-> "retrieve_relevant_chunks", embed |-> r.embed,
                     search |-> r.search, kwargs |-> r.kwargs, res |-> r.res]
    /\ UNCHANGED <<storeVars, queryLogs, requestVars, ingestVars, call>>

NextRetrieve == RetrieveRelevantChunks

SpecRetrieve == InitRetrieve /\ [][NextRetrieve]_vars

\* ------------------------------------------ similarity_search on its own
SearchCalls ==
    [op : {"similarity_search"},
     embedding : QueryEmbeddings,
     top_k : TopKArguments,
     min_score : MinScoreArguments,
     document_id : DocIds \cup {None}]

InitSearch ==
    StoreReady /\ RequestIdle /\ IngestIdle /\ call \in SearchCalls /\ result = NoResult

SimilaritySearch ==
    /\ call.op = "similarity_search"
    /\ result = NoResult
    /\ \E r \in similarity_search(call.embedding, call.top_k,
                                  call.min_score, call.document_id) :
          result' = [op |-> "similarity_search", res |-> r]
    /\ UNCHANGED <<storeVars, queryLogs, requestVars, ingestVars, call>>

NextSearch == SimilaritySearch

SpecSearch == InitSearch /\ [][NextSearch]_vars

\* --------------------------------- format_context_from_chunks on its own
ContextPages == {1, 2}
ContextContents == {<<"a">>, <<"b">>}
ContextScores == {50, 87}

\* what a caller may put in the list: the (Chunk, score) tuples that
\* similarity_search builds, or the dicts the signature announces
ContextItems ==
    [type : {"tuple"},
     chunk : [page_number : ContextPages, content : ContextContents],
     score : ContextScores]
    \cup [type : {"dict"}, page_number : ContextPages, content : ContextContents]

FormatCalls ==
    [op : {"format_context_from_chunks"}, chunks : SeqsUpTo(ContextItems, MaxItems)]

InitFormat ==
    StoreEmpty /\ RequestIdle /\ IngestIdle /\ call \in FormatCalls /\ result = NoResult

FormatContext ==
    /\ call.op = "format_context_from_chunks"
    /\ result = NoResult
    /\ result' = [op |-> "format_context_from_chunks",
                  res |-> format_context_from_chunks(call.chunks)]
    /\ UNCHANGED <<storeVars, queryLogs, requestVars, ingestVars, call>>

NextFormat == FormatContext

SpecFormat == InitFormat /\ [][NextFormat]_vars

\* ------------------------------------------------- ingestion and deletion
\* `Path(filename).suffix.lower()`
SuffixLower(filename) ==
    CASE filename = "a.pdf" -> ".pdf"
      [] filename = "a.PDF" -> ".pdf"
      [] filename = "a.txt" -> ".txt"

\* validate_file_type: the exception it raises, if any
validate_file_type(filename) ==
    IF SuffixLower(filename) \notin {".pdf"}
    THEN Exc("InvalidFileTypeError", INVALID_FILE_TYPE_MSG \o <<SuffixLower(filename)>>)
    ELSE NoExc

\* validate_file_size: the exception it raises, if any
validate_file_size(file_size) ==
    IF file_size > max_size_mb
    THEN Exc("FileSizeExceededError", FILE_SIZE_EXCEEDED_MSG \o <<ToString(file_size)>>)
    ELSE NoExc

\* the outer except clauses of upload_document
UploadHttpStatus(e) ==
    CASE e.cls = "InvalidFileTypeError" -> "HTTP_400_BAD_REQUEST"
      [] e.cls = "FileSizeExceededError" -> "HTTP_413_REQUEST_ENTITY_TOO_LARGE"
      [] OTHER -> "HTTP_500_INTERNAL_SERVER_ERROR"

\* BaseRepository.create and update: `commit()` then `refresh(entity)`,
\* either of which may fail
CommitOutcomes == {"ok", "commit fails", "refresh fails"}
Committed(out) == out # "commit fails"
StoreExc(out) == Exc("OperationalError", <<out>>)

\* f"Error procesando documento: {str(e)}"
ProcessingErrorMessageEmpty(e) == <<>>
ProcessingErrorMessage(e) == PROCESSING_ERROR_PREFIX \o e.msg

\* DocumentRepository.update_status: the rows after its commit
update_status(rows, d, status, error_message) ==
    IF rows[d] = NoDoc THEN rows
    ELSE [rows EXCEPT ![d].status = status,
                      ![d].error_message =
                          IF error_message # <<>> THEN error_message ELSE @]

\* the first free row id of table chunks
FreeChunkIds == {c \in ChunkIds : chunks[c] = NoChunk}
NewChunkId == CHOOSE c \in FreeChunkIds : \A x \in FreeChunkIds : c <= x

\* what extraction, chunking and embed_batch hand to the insertion loop: the
\* embeddings of the chunks, one per chunk, or the exception of the step that failed
ProcessingOutcomes ==
    {Raises(Exc("PDFProcessingError", PDF_PROCESSING_MSG))}
    \cup {Raises(Exc("EmbeddingServiceError", EMBED_BATCH_ERROR_PREFIX \o <<m>>)) :
             m \in RemoteMsgs}
    \cup {Ok(l) : l \in {x \in SeqsUpTo(StoredEmbeddings, NumChunks) :
                            Len(x) <= Cardinality(FreeChunkIds)}}

\* upload_document up to the end of `document_repo.create(document)`: the two
\* validations, then the Document row in status processing
UploadDocument(filename, file_size) ==
    /\ upload.pc \in {"idle", "done"}
    /\ upload.n < MaxUploads
    /\ LET started == [NoUpload EXCEPT !.n = upload.n + 1]
           invalid == IF validate_file_type(filename) # NoExc
                      THEN validate_file_type(filename)
                      ELSE validate_file_size(file_size)
       IN  IF invalid # NoExc
           THEN /\ upload' = [started EXCEPT !.pc = "done", !.exc = invalid,
                                             !.http = UploadHttpStatus(invalid)]
                /\ UNCHANGED <<docs, docRows, issued>>
           ELSE \E d \in DocIds \ issued, out \in CommitOutcomes :
                   /\ issued' = issued \cup {d}
                   /\ IF Committed(out)
                      THEN /\ docs' = docs \cup {d}
                           /\ docRows' = [docRows EXCEPT
                                              ![d] = DocumentRow("processing", <<>>, NULL)]
                      ELSE UNCHANGED <<docs, docRows>>
                   /\ upload' = IF out = "ok"
                                THEN [started EXCEPT !.pc = "process", !.document = d]
                                ELSE [started EXCEPT
                                         !.pc = "done",
                                         !.document = IF Committed(out) THEN d ELSE None,
                                         !.exc = StoreExc(out),
                                         !.failed = {"create"},
                                         !.http = UploadHttpStatus(StoreExc(out))]
    /\ UNCHANGED <<chunks, top_k, queryLogs, requestVars, deletion, callVars>>

\* the temporary file of NamedTemporaryFile(delete=False) after the steps up
\* to embed_batch: `temp_path.unlink()` comes right after the extraction and
\* is skipped when the extraction raises
TempFileAfter(r) ==
    IF ~r.ok /\ r.exc.cls = "PDFProcessingError" THEN "exists" ELSE "removed"

\* the temporary file, extract_text_with_pages, chunk_text and embed_batch:
\* no suspension point between them
ProcessDocument ==
    /\ upload.pc = "process"
    /\ \E r \in ProcessingOutcomes :
          upload' = IF ~r.ok
                    THEN [upload EXCEPT !.pc = "fail", !.exc = r.exc,
                                        !.failed = @ \cup {"process"},
                                        !.temp_file = TempFileAfter(r)]
                    ELSE [upload EXCEPT !.pc = IF r.value = <<>> THEN "finish" ELSE "insert",
                                        !.embeddings = r.value,
                                        !.temp_file = TempFileAfter(r)]
    /\ UNCHANGED <<storeVars, queryLogs, requestVars, docRows, issued, deletion,
                   callVars>>

\* one turn of the loop `chunk = await vector_repo.create_chunk(chunk)`; the
\* insert is refused when the document row is gone (foreign key of chunks)
CreateChunk ==
    /\ upload.pc = "insert"
    /\ \E out \in CommitOutcomes :
          LET exc == IF upload.document \notin docs
                     THEN Exc("IntegrityError", <<"foreign key">>)
                     ELSE IF out # "ok" THEN StoreExc(out) ELSE NoExc
              stored == upload.document \in docs /\ Committed(out)
          IN  /\ chunks' = IF stored
                           THEN [chunks EXCEPT ![NewChunkId] =
                                    [document_id |-> upload.document,
                                     embedding |-> Head(upload.embeddings),
                                     chunk_index |-> upload.created]]
                           ELSE chunks
              /\ upload' = IF exc # NoExc
                           THEN [upload EXCEPT !.pc = "fail", !.exc = exc,
                                               !.failed = @ \cup {"create_chunk"}]
                           ELSE [upload EXCEPT
                                    !.pc = IF Tail(upload.embeddings) = <<>>
                                           THEN "finish" ELSE "insert",
                                    !.embeddings = Tail(@),
                                    !.created = @ + 1]
    /\ UNCHANGED <<docs, top_k, queryLogs, requestVars, docRows, issued, deletion,
                   callVars>>

\* total_chunks, status ready, `document_repo.update(document)` and
\* `DocumentResponse.model_validate(document)`, all inside the inner try; the
\* update matches no row when the document is gone
MarkReady ==
    /\ upload.pc = "finish"
    /\ \E out \in CommitOutcomes \cup {"validation fails"} :
          LET exc == IF upload.document \notin docs
                     THEN Exc("StaleDataError", <<"0 rows matched">>)
                     ELSE IF out = "validation fails"
                          THEN Exc("ValidationError", <<"status">>)
                          ELSE IF out # "ok" THEN StoreExc(out) ELSE NoExc
              stored == upload.document \in docs /\ Committed(out)
          IN  /\ docRows' = IF stored
                            THEN [docRows EXCEPT
                                     ![upload.document].status = "ready",
                                     ![upload.document].total_chunks = upload.created]
                            ELSE docRows
              /\ upload' = IF exc # NoExc
                           THEN [upload EXCEPT !.pc = "fail", !.exc = exc,
                                               !.failed = @ \cup {"update"}]
                           ELSE [upload EXCEPT !.pc = "done",
                                               !.http = "HTTP_201_CREATED"]
    /\ UNCHANGED <<storeVars, queryLogs, requestVars, issued, deletion, callVars>>

\* the inner except clause: update_status(document.id, failed, error_message)
\* and HTTPException 422; an exception of update_status itself leaves the handler
MarkFailed ==
    /\ upload.pc = "fail"
    /\ \E out \in CommitOutcomes :
          /\ docRows' = IF Committed(out)
                        THEN update_status(docRows, upload.document, "failed",
                                           ProcessingErrorMessage(upload.exc))
                        ELSE docRows
          /\ upload' = IF out = "ok"
                       THEN [upload EXCEPT !.pc = "done",
                                           !.http = "HTTP_422_UNPROCESSABLE_ENTITY"]
                       ELSE [upload EXCEPT !.pc = "done",
                                           !.failed = @ \cup {"update_status"},
                                           !.http = UploadHttpStatus(StoreExc(out))]
    /\ UNCHANGED <<storeVars, queryLogs, requestVars, issued, deletion, callVars>>

\* delete_document up to `document_repo.get_by_id(document_id)`
DeleteDocument(d) ==
    /\ deletion.pc \in {"idle", "done"}
    /\ deletion.n < MaxDeletes
    /\ deletion' = IF d \notin docs
                   THEN [NoDeletion EXCEPT !.n = deletion.n + 1, !.pc = "done",
                                           !.http = "HTTP_404_NOT_FOUND"]
                   ELSE [NoDeletion EXCEPT !.n = deletion.n + 1, !.pc = "chunks",
                                           !.document_id = d]
    /\ UNCHANGED <<storeVars, queryLogs, requestVars, docRows, issued, upload,
                   callVars>>

\* delete_chunks_by_document_id: DELETE FROM chunks WHERE document_id = ..., commit
DeleteChunks ==
    /\ deletion.pc = "chunks"
    /\ chunks' = [c \in ChunkIds |->
                     IF chunks[c].document_id = deletion.document_id
                     THEN NoChunk ELSE chunks[c]]
    /\ deletion' = [deletion EXCEPT !.pc = "document"]
    /\ UNCHANGED <<docs, top_k, queryLogs, requestVars, docRows, issued, upload,
                   callVars>>

\* rows of chunks and query_logs that reference the document: neither foreign
\* key declares ON DELETE, so the store refuses to delete a referenced row
Referenced(d) ==
    \/ \E c \in ChunkIds : chunks[c].document_id = d
    \/ \E i \in 1..Len(queryLogs) : queryLogs[i].document_id = d

\* `document_repo.delete(document)`
DeleteDocumentRow ==
    /\ deletion.pc = "document"
    /\ IF Referenced(deletion.document_id)
       THEN /\ deletion' = [deletion EXCEPT
                               !.pc = "done",
                               !.exc = Exc("IntegrityError", <<"foreign key">>),
                               !.http = "HTTP_500_INTERNAL_SERVER_ERROR"]
            /\ UNCHANGED <<docs, docRows>>
       ELSE /\ deletion' = [deletion EXCEPT !.pc = "done",
                                            !.http = "HTTP_204_NO_CONTENT"]
            /\ docs' = docs \ {deletion.document_id}
            /\ docRows' = [docRows EXCEPT ![deletion.document_id] = NoDoc]
    /\ UNCHANGED <<chunks, top_k, queryLogs, requestVars, issued, upload, callVars>>

InitIngest == StoreEmpty /\ RequestIdle /\ IngestIdle /\ CallIdle

NextIngest ==
    \/ \E filename \in Filenames, file_size \in FileSizes :
          UploadDocument(filename, file_size)
    \/ ProcessDocument
    \/ CreateChunk
    \/ MarkReady
    \/ MarkFailed
    \/ \E d \in DocIds : DeleteDocument(d)
    \/ DeleteChunks
    \/ DeleteDocumentRow

SpecIngest == InitIngest /\ [][NextIngest]_vars

\* a request handler that has started is run to its end by the event loop:
\* each of its steps is taken once it is enabled; requests arrive or not
IngestFairness ==
    /\ WF_vars(ProcessDocument)
    /\ WF_vars(CreateChunk)
    /\ WF_vars(MarkReady)
    /\ WF_vars(MarkFailed)
    /\ WF_vars(DeleteChunks)
    /\ WF_vars(DeleteDocumentRow)

SpecIngestFair == SpecIngest /\ IngestFairness

\* uploads, deletions and questions served by the same process, their
\* handlers interleaved at their suspension points
NextSystem == NextIngest \/ Next

SpecSystem == InitIngest /\ [][NextSystem]_vars

\* --------------------------------------------------------------- chunking
\* str.strip()
RECURSIVE LStrip(_)
LStrip(s) == IF s # <<>> /\ Head(s) \in Whitespace THEN LStrip(Tail(s)) ELSE s

RECURSIVE RStrip(_)
RStrip(s) ==
    IF s # <<>> /\ s[Len(s)] \in Whitespace THEN RStrip(SubSeq(s, 1, Len(s) - 1)) ELSE s

Strip(s) == RStrip(LStrip(s))

\* unicodedata.normalize("NFC", text): a letter and its combining accent compose
RECURSIVE NormalizeNFC(_)
NormalizeNFC(s) ==
    IF s = <<>> THEN <<>>
    ELSE IF Len(s) >= 2 /\ s[1] = "e" /\ s[2] = "COMBINING ACUTE"
         THEN <<"e-acute">> \o NormalizeNFC(SubSeq(s, 3, Len(s)))
         ELSE <<Head(s)>> \o NormalizeNFC(Tail(s))

\* re.sub(r"\s+", " ", text)
RECURSIVE CollapseWhitespace(_)
CollapseWhitespace(s) ==
    IF s = <<>> THEN <<>>
    ELSE IF Head(s) \in Whitespace
         THEN <<" ">> \o CollapseWhitespace(LStrip(s))
         ELSE <<Head(s)>> \o CollapseWhitespace(Tail(s))

clean_text(text) == Strip(CollapseWhitespace(NormalizeNFC(text)))

\* len(chunk_text.split())
RECURSIVE WordCount(_)
WordCount(s) ==
    IF s = <<>> THEN 0
    ELSE IF Head(s) \in Whitespace THEN WordCount(Tail(s))
         ELSE IF Len(s) = 1 \/ s[2] \in Whitespace
              THEN 1 + WordCount(Tail(s))
              ELSE WordCount(Tail(s))

\* `chunk_size = chunk_size or self.chunk_size`, `overlap = overlap or self.chunk_overlap`
ChunkSizeOrDefault(self, chunk_size) ==
    IF chunk_size.given /\ chunk_size.value # 0 THEN chunk_size.value ELSE self.chunk_size
OverlapOrDefault(self, overlap) ==
    IF overlap.given /\ overlap.value # 0 THEN overlap.value ELSE self.chunk_overlap

\* the splitter's pieces that follow a piece ending at position pb: each at
\* most `size` long, starting no more than `overlap` before pb, skipping only
\* whitespace, until no character other than whitespace is left
RECURSIVE SplitsAfter(_, _, _, _, _)
SplitsAfter(text, size, overlap, pa, pb) ==
    (IF \A p \in (pb + 1)..Len(text) : text[p] \in Whitespace THEN {<<>>} ELSE {})
    \cup UNION {
        {<<SubSeq(text, a, b)>> \o rest : rest \in SplitsAfter(text, size, overlap, a, b)} :
            <<a, b>> \in {iv \in ((pa + 1)..Len(text)) \X ((pb + 1)..Len(text)) :
                            /\ iv[1] <= iv[2]
                            /\ iv[2] - iv[1] + 1 <= size
                            /\ iv[1] >= pb + 1 - overlap
                            /\ \A p \in (pb + 1)..(iv[1] - 1) : text[p] \in Whitespace}}

\* RecursiveCharacterTextSplitter.split_text: a text that fits is one piece,
\* a longer one is cut into pieces of the text, in order
split_text(text, size, overlap) ==
    IF Len(text) <= size THEN {<<text>>} ELSE SplitsAfter(text, size, overlap, 0, 0)

\* `sorted(pages_dict.keys())`; pages_dict is the sequence of its items in
\* insertion order
InsertionOrderKeys(pages_dict) == [i \in 1..Len(pages_dict) |-> pages_dict[i][1]]
RECURSIVE SortedKeysOf(_)
SortedKeysOf(keys) ==
    IF keys = {} THEN <<>>
    ELSE LET k == CHOOSE x \in keys : \A y \in keys : x <= y
         IN  <<k>> \o SortedKeysOf(keys \ {k})
SortedKeys(pages_dict) ==
    SortedKeysOf({pages_dict[i][1] : i \in 1..Len(pages_dict)})

\* `pages_dict[page_num]`
PageText(pages_dict, page_num) ==
    LET i == CHOOSE j \in 1..Len(pages_dict) : pages_dict[j][1] = page_num
    IN  pages_dict[i][2]

\* `if not page_text.strip(): continue`
SkipPageWithLeadingBlank(page_text) == page_text = <<>> \/ Head(page_text) \in Whitespace
SkipPage(page_text) == IsBlank(page_text)

\* the inner loop over page_chunks: blank pieces are dropped, the others are
\* appended with the running chunk_index
RECURSIVE EmitChunks(_, _, _)
EmitChunks(page_chunks, page_num, chunk_index) ==
    IF page_chunks = <<>> THEN <<>>
    ELSE IF IsBlank(Head(page_chunks))
         THEN EmitChunks(Tail(page_chunks), page_num, chunk_index)
         ELSE <<[content |-> Strip(Head(page_chunks)),
                 page_number |-> page_num,
                 chunk_index |-> chunk_index,
                 word_count |-> WordCount(Head(page_chunks))]>>
              \o EmitChunks(Tail(page_chunks), page_num, chunk_index + 1)

\* chunk_index when the loop moves to the next page: `chunk_index += 1` ran
\* once per appended chunk
IndexAfterPageReset(chunk_index, emitted) == 0
IndexAfterPage(chunk_index, emitted) == chunk_index + Len(emitted)

\* the outer loop from the i-th key of `order` on: the lists it may build
RECURSIVE ChunkPages(_, _, _, _, _, _)
ChunkPages(pages_dict, order, i, chunk_index, size, overlap) ==
    IF i > Len(order) THEN {<<>>}
    ELSE LET page_num == order[i]
             page_text == PageText(pages_dict, page_num)
         IN  IF SkipPage(page_text)
             THEN ChunkPages(pages_dict, order, i + 1, chunk_index, size, overlap)
             ELSE UNION {
                 LET emitted == EmitChunks(page_chunks, page_num, chunk_index)
                 IN  {emitted \o rest :
                         rest \in ChunkPages(pages_dict, order, i + 1,
                                             IndexAfterPage(chunk_index, emitted),
                                             size, overlap)} :
                 page_chunks \in split_text(clean_text(page_text), size, overlap)}

\* ChunkingService.chunk_text: the lists it may return, or the ValueError of
\* the splitter's constructor
\* the keyword arguments RecursiveCharacterTextSplitter is built with
SplitterArguments(self, chunk_size, overlap) ==
    [chunk_size |-> ChunkSizeOrDefault(self, chunk_size) * CharsPerToken,
     chunk_overlap |-> OverlapOrDefault(self, overlap) * CharsPerToken]

chunk_text(self, pages_dict, chunk_size, overlap) ==
    LET char_chunk_size == ChunkSizeOrDefault(self, chunk_size) * CharsPerToken
        char_overlap == OverlapOrDefault(self, overlap) * CharsPerToken
    IN  IF char_overlap > char_chunk_size
        THEN {Raises(Exc("ValueError", OVERLAP_LARGER_MSG))}
        ELSE {Ok(l) : l \in ChunkPages(pages_dict, SortedKeys(pages_dict), 1, 0,
                                       char_chunk_size, char_overlap)}

\* dictionaries of at most MaxPages pages, their keys in any insertion order
PagesDicts ==
    {p \in SeqsUpTo((1..MaxPages) \X PageTexts, MaxPages) :
        \A i, j \in 1..Len(p) : i # j => p[i][1] # p[j][1]}

ChunkTextCalls ==
    [op : {"chunk_text"},
     self : ChunkingServices,
     pages_dict : PagesDicts,
     chunk_size : {Absent} \cup {Given(v) : v \in ChunkSizeArguments},
     overlap : {Absent, Given(0)}]

InitChunking ==
    StoreEmpty /\ RequestIdle /\ IngestIdle /\ call \in ChunkTextCalls /\ result = NoResult

ChunkText ==
    /\ call.op = "chunk_text"
    /\ result = NoResult
    /\ \E r \in chunk_text(call.self, call.pages_dict, call.chunk_size, call.overlap) :
          result' = [op |-> "chunk_text",
                     splitter |-> SplitterArguments(call.self, call.chunk_size,
                                                    call.overlap),
                     res |-> r]
    /\ UNCHANGED <<storeVars, queryLogs, requestVars, ingestVars, call>>

NextChunking == ChunkText

SpecChunking == InitChunking /\ [][NextChunking]_vars

\* ----------------------------------------------------------- embed_batch
\* the vector the embedding model returns for a text
EmbeddingOf(text) == [embedding_of |-> text]

\* `[t for t in texts if t and t.strip()]`
NonEmptyTexts(texts) == SelectSeq(texts, LAMBDA t : ~IsBlank(t))

\* the slices `non_empty_texts[i : i + max_batch_size]` for i in
\* range(0, len(non_empty_texts), max_batch_size)
RECURSIVE BatchesDroppingRemainder(_, _)
BatchesDroppingRemainder(texts, max_batch_size) ==
    IF Len(texts) < max_batch_size \/ texts = <<>> THEN <<>>
    ELSE <<SubSeq(texts, 1, max_batch_size)>>
         \o BatchesDroppingRemainder(SubSeq(texts, max_batch_size + 1, Len(texts)),
                                     max_batch_size)
RECURSIVE Batches(_, _)
Batches(texts, max_batch_size) ==
    IF texts = <<>> THEN <<>>
    ELSE IF Len(texts) <= max_batch_size THEN <<texts>>
         ELSE <<SubSeq(texts, 1, max_batch_size)>>
              \o Batches(SubSeq(texts, max_batch_size + 1, Len(texts)), max_batch_size)

\* `embeddings.extend(batch_embeddings)` over the batches
RECURSIVE Concatenation(_)
Concatenation(lists) ==
    IF lists = <<>> THEN <<>> ELSE Head(lists) \o Concatenation(Tail(lists))

\* embed_batch: `except Exception as e: raise EmbeddingServiceError(...)`
EmbedBatchExcept(e) == Exc("EmbeddingServiceError", EMBED_BATCH_ERROR_PREFIX \o e.msg)

\* the remote calls issued when the j-th one raises: the exception leaves the
\* `for` loop, so the calls of the batches after the j-th are never made
RequestsDespiteFailure(batches, j) == batches
RequestsUntilFailure(batches, j) == SubSeq(batches, 1, j)

\* EmbeddingService.embed_batch: the remote calls it issues and what it
\* returns or raises; any one of the remote calls may fail (failed_at is the
\* position of the failing call, 0 when none fails)
embed_batch(texts, max_batch_size) ==
    IF texts = <<>>
    THEN {[requests |-> <<>>, failed |-> FALSE, failed_at |-> 0, res |-> Ok(<<>>)]}
    ELSE IF NonEmptyTexts(texts) = <<>>
    THEN {[requests |-> <<>>, failed |-> FALSE, failed_at |-> 0,
           res |-> Raises(Exc("EmbeddingServiceError", NO_VALID_TEXTS_MSG))]}
    ELSE IF max_batch_size = 0
    THEN {[requests |-> <<>>, failed |-> FALSE, failed_at |-> 0,
           res |-> Raises(EmbedBatchExcept(Exc("ValueError", RANGE_STEP_ZERO_MSG)))]}
    ELSE LET batches == Batches(NonEmptyTexts(texts), max_batch_size)
         IN  {[requests |-> batches, failed |-> FALSE, failed_at |-> 0,
               res |-> Ok(Concatenation(
                          [j \in 1..Len(batches) |->
                              [i \in 1..Len(batches[j]) |-> EmbeddingOf(batches[j][i])]]))]}
             \cup {[requests |-> RequestsUntilFailure(batches, j), failed |-> TRUE,
                    failed_at |-> j,
                    res |-> Raises(EmbedBatchExcept(Exc("APIError", <<m>>)))] :
                      j \in 1..Len(batches), m \in RemoteMsgs}

EmbedBatchCalls ==
    [op : {"embed_batch"},
     texts : SeqsUpTo(BatchTexts, MaxTexts),
     max_batch_size : BatchSizes]

InitBatch ==
    StoreEmpty /\ RequestIdle /\ IngestIdle /\ call \in EmbedBatchCalls /\ result = NoResult

EmbedBatch ==
    /\ call.op = "embed_batch"
    /\ result = NoResult
    /\ \E r \in embed_batch(call.texts, call.max_batch_size) :
          result' = [op |-> "embed_batch", requests |-> r.requests,
                     failed |-> r.failed, failed_at |-> r.failed_at, res |-> r.res]
    /\ UNCHANGED <<storeVars, queryLogs, requestVars, ingestVars, call>>

NextBatch == EmbedBatch

SpecBatch == InitBatch /\ [][NextBatch]_vars

\* ----------------------------------------------------------------- claims
\* retrieval of the current request has returned a list (it did not raise)
Retrieved == calls.search = 1 /\ "search" \notin failed
RetrievedEmpty == Retrieved /\ chunks_with_scores = <<>>
RetrievedSome == Retrieved /\ Len(chunks_with_scores) >= 1

\* the text is empty or made of whitespace only
OnlyWhitespace(s) == \A i \in DOMAIN s : s[i] = " "

\* C1: a request whose question is empty or only whitespace has ended at once
\* with the empty-question error, and nothing else happened for it: no
\* document lookup, no embedding call, no search, no language-model call and
\* no audit-log write.
C1_BlankQuestionRejectedFirst ==
    (requests > 0 /\ OnlyWhitespace(question)) =>
        /\ pc = "done"
        /\ outcome = [kind |-> "error",
                      err |-> Exc("RAGSystemError", EMPTY_QUESTION_MSG)]
        /\ calls = NoCalls
        /\ llm = NoLLM
        /\ logged = NoEntity

C1_Witness ==
    /\ pc = "done"
    /\ requests > 0
    /\ question = <<" ">>
    /\ outcome.kind = "error"

\* C2: once retrieval has returned an empty list, the language model is never
\* called for the request, and the request ends with the response
\* is_answerable=false, retrieved_chunks_count=0, tokens_used=0, chunk_ids=[]
\* and the fixed 'no relevant information' answer.
C2_EmptyRetrievalShortCircuits ==
    RetrievedEmpty =>
        /\ calls.llm = 0
        /\ llm = NoLLM
        /\ pc \in {"log", "return", "done"}
        /\ pc = "done" =>
              outcome = [kind |-> "response",
                         resp |-> [answer |-> NO_RELEVANT_INFO_ANSWER,
                                   is_answerable |-> FALSE,
                                   tokens_used |-> 0,
                                   chunk_ids |-> <<>>,
                                   retrieved_chunks_count |-> 0]]

C2_Witness == pc = "done" /\ RetrievedEmpty /\ outcome.kind = "response"

\* C3: when retrieval returned n >= 1 pairs and the language model did not
\* fail, the request ends with a response whose answer and tokens_used are the
\* model's, whose retrieved_chunks_count is n and whose chunk_ids are the ids
\* of the retrieved chunks in retrieval order.
C3_NonEmptyRetrievalAnswered ==
    (pc = "done" /\ RetrievedSome /\ "llm" \notin failed) =>
        /\ outcome.kind = "response"
        /\ llm.called
        /\ outcome.resp.answer = llm.text
        /\ outcome.resp.tokens_used = llm.tokens
        /\ outcome.resp.retrieved_chunks_count = Len(chunks_with_scores)
        /\ outcome.resp.chunk_ids =
               [i \in 1..Len(chunks_with_scores) |-> chunks_with_scores[i].chunk.id]

\* C4: a request that retrieved chunks and met no failing collaborator has
\* called the language model, and its is_answerable is false exactly when the
\* model's text contains the refusal phrase.
C4_AnswerabilityByRefusalPhrase ==
    (pc = "done" /\ RetrievedSome /\ failed \subseteq {"lookup", "log"}) =>
        /\ llm.called
        /\ outcome.kind = "response"
        /\ outcome.resp.is_answerable = FALSE
               <=> Contains(llm.text, NOT_ANSWERABLE_PHRASE)

\* the response answer_question owes for the retrieval and language-model
\* results of the current request, whatever happened to the audit log
ResponseOwed ==
    IF chunks_with_scores = <<>>
    THEN [answer |-> NO_RELEVANT_INFO_ANSWER, is_answerable |-> FALSE,
          tokens_used |-> 0, chunk_ids |-> <<>>, retrieved_chunks_count |-> 0]
    ELSE [answer |-> llm.text,
          is_answerable |-> ~Contains(llm.text, NOT_ANSWERABLE_PHRASE),
          tokens_used |-> llm.tokens,
          chunk_ids |-> [i \in 1..Len(chunks_with_scores) |->
                            chunks_with_scores[i].chunk.id],
          retrieved_chunks_count |-> Len(chunks_with_scores)]

\* C5: a request that attempted the audit-log write ends with the response
\* owed for its retrieval and language-model results, the same whether the
\* write failed or succeeded, and a failed write raises nothing.
C5_LogFailureNeverChangesOutcome ==
    /\ (pc = "done" /\ calls.log = 1) =>
           outcome = [kind |-> "response", resp |-> ResponseOwed]
    /\ "log" \in failed => raised = NoExc /\ pc \in {"return", "done"}

C5_Witness ==
    /\ pc = "done"
    /\ "log" \in failed
    /\ logged.document_id \in docs
    /\ outcome.kind = "response"

C7_DomainErrorsPassOthersWrapped ==
    /\ (pc = "done" /\ raised # NoExc) =>
           /\ outcome.kind = "error"
           /\ raised.cls \in RAGSystemErrorClasses => outcome.err = raised
           /\ raised.cls \notin RAGSystemErrorClasses =>
                  outcome.err = [cls |-> "RAGSystemError",
                                 msg |-> ANSWER_ERROR_PREFIX \o raised.msg]
    /\ outcome.kind = "error" => outcome.err.cls \in RAGSystemErrorClasses

C7_Witness ==
    /\ pc = "done"
    /\ raised.cls = "EmbeddingServiceError"
    /\ outcome.kind = "error"
    /\ outcome.err = raised

\* C8: within one request the embedding call, the search and the
\* language-model call are each issued at most once, and after the first
\* failure of one of them the request has ended with an error and no later
\* remote call was issued.
C8_NoRetries ==
    /\ calls.embed <= 1 /\ calls.search <= 1 /\ calls.llm <= 1
    /\ "embed" \in failed =>
           pc = "done" /\ outcome.kind = "error" /\ calls.search = 0 /\ calls.llm = 0
    /\ "search" \in failed =>
           pc = "done" /\ outcome.kind = "error" /\ calls.llm = 0
    /\ "llm" \in failed => pc = "done" /\ outcome.kind = "error"

C8_Witness ==
    /\ pc = "done"
    /\ "search" \in failed
    /\ calls.embed = 1
    /\ calls.search = 1

\* C9: an audit-log entry written by a request carries the caller's
\* document_id when one was given and otherwise the id of a document of the
\* store; an unscoped request on a store without documents writes no entry
\* and, unless retrieval fails, still returns its response.
C9_LogScopeDocument ==
    /\ (calls.log = 1 /\ "log" \notin failed) =>
           /\ Len(queryLogs) >= 1
           /\ queryLogs[Len(queryLogs)] = logged
           /\ document_id # None => logged.document_id = document_id
           /\ document_id = None => logged.document_id \in docs
    /\ (requests > 0 /\ ~OnlyWhitespace(question) /\ document_id = None /\ docs = {}) =>
           /\ calls.log = 0
           /\ logged = NoEntity
           /\ pc \notin {"log", "compose"}
           /\ (pc = "done" /\ raised = NoExc) => outcome.kind = "response"

C9_Witness ==
    /\ pc = "done"
    /\ document_id = None
    /\ calls.lookup = 1
    /\ calls.log = 1
    /\ "log" \notin failed
    /\ Cardinality(docs) = 2

\* C10: on the empty-result path with a logging-scope document id, the
\* audit-log write has been attempted before the response is returned, with
\* is_answerable=false and an empty chunk-id list.
C10_EmptyResultStillLogged ==
    (RetrievedEmpty /\ log_document_id # None /\ pc \in {"return", "done"}) =>
        /\ calls.log = 1
        /\ logged.document_id = log_document_id
        /\ logged.query_text = question
        /\ logged.is_answerable = FALSE
        /\ logged.retrieved_chunks = <<>>

C10_Witness ==
    /\ pc = "return"
    /\ RetrievedEmpty
    /\ log_document_id # None
    /\ calls.log = 1
    /\ outcome = NoOutcome

\* C11: when the similarity search of the store fails, the request has ended
\* with an error, never with a response: the error is the one retrieval raises
\* for its own failures, wrapping the store's message, and neither the
\* language model nor the audit log was reached.
C11_StoreFailureNeverAnEmptyResult ==
    "search" \in failed =>
        /\ pc = "done"
        /\ outcome.kind = "error"
        /\ outcome.err.cls = "RAGSystemError"
        /\ \E m \in RemoteMsgs : outcome.err.msg = RETRIEVAL_ERROR_PREFIX \o <<m>>
        /\ chunks_with_scores = <<>>
        /\ calls.llm = 0
        /\ calls.log = 0

C11_Witness ==
    /\ pc = "done"
    /\ "search" \in failed
    /\ docs # {}
    /\ outcome.kind = "error"
    /\ outcome.err.msg = RETRIEVAL_ERROR_PREFIX \o <<"timeout">>

\* C12: when retrieve_relevant_chunks calls the similarity search, the top_k
\* and min_score it passes are the caller's whenever the caller supplied them,
\* 0 included, and the service defaults only when the argument is absent; the
\* document_id it passes is the caller's.
C12_SuppliedArgumentsReachTheSearch ==
    (result.op = "retrieve_relevant_chunks" /\ result.search = 1) =>
        /\ call.top_k.given => result.kwargs.top_k = call.top_k.value
        /\ ~call.top_k.given => result.kwargs.top_k = top_k
        /\ call.min_similarity.given =>
               result.kwargs.min_score = call.min_similarity.value
        /\ ~call.min_similarity.given => result.kwargs.min_score = min_similarity
        /\ result.kwargs.document_id = call.document_id

C12_Witness ==
    /\ result.op = "retrieve_relevant_chunks"
    /\ call.top_k = Given(0)
    /\ call.min_similarity = Given(0)
    /\ call.document_id = "d1"
    /\ result.search = 1
    /\ result.res = Ok(<<>>)
    /\ \E c \in ChunkIds : chunks[c].document_id = "d1" /\ chunks[c].embedding # NULL

\* C13: no step of an answer_question request, whether it goes on to return
\* or to raise, changes a document or a chunk; the only change it makes to
\* the store is the append of the one QueryLog entry of its audit-log write.
C13_QueryPathReadOnly ==
    [][/\ docs' = docs
       /\ docRows' = docRows
       /\ chunks' = chunks
       /\ \/ queryLogs' = queryLogs
          \/ /\ pc = "log"
             /\ calls.log = 0
             /\ queryLogs' = Append(queryLogs, logged')]_vars

C13_Witness ==
    /\ pc = "done"
    /\ Len(queryLogs) = 1
    /\ calls.search = 1
    /\ \E c \in ChunkIds : chunks[c] # NoChunk

\* C14: the stored status of a document only moves along uploading ->
\* processing -> ready or failed; a document stored as ready or failed never
\* changes status again, in particular not from ready to failed by the upload
\* request that stored it as ready.
C14_StatusOnlyMovesForward ==
    [][\A d \in DocIds :
          (/\ docRows[d] # NoDoc
           /\ docRows'[d] # NoDoc
           /\ docRows'[d].status # docRows[d].status) =>
              <<docRows[d].status, docRows'[d].status>> \in
                  {<<"uploading", "processing">>, <<"processing", "ready">>,
                   <<"processing", "failed">>}]_vars

\* the three ingestion-side errors
IngestionErrors == {"InvalidFileTypeError", "FileSizeExceededError", "PDFProcessingError"}

C16_DeleteRemovesDocumentAndChunks ==
    /\ (deletion.pc = "done" /\ deletion.document_id # None) =>
           /\ deletion.document_id \notin docs
           /\ ChunksOf(deletion.document_id) = {}
    /\ \A c \in ChunkIds : chunks[c] # NoChunk => chunks[c].document_id \in docs

\* the text holds a character other than whitespace
NonBlankText(s) == \E i \in DOMAIN s : s[i] \notin {" ", "\n"}

\* chunk_text has returned its list
Chunked == result.op = "chunk_text" /\ result.res.ok

\* C17: in the list chunk_text returns, the chunk_index of the i-th chunk is
\* i - 1 (from 0, no gap, no repeat, never reset at a page), and every content
\* is non-empty after trimming.
C17_ChunkIndexesSequential ==
    Chunked =>
        \A i \in 1..Len(result.res.value) :
            /\ result.res.value[i].chunk_index = i - 1
            /\ NonBlankText(result.res.value[i].content)

C17_Witness ==
    /\ Chunked
    /\ Len(result.res.value) >= 3
    /\ result.res.value[1].page_number # result.res.value[3].page_number
    /\ result.res.value[3].chunk_index = 2

\* C18: the page numbers of the chunks chunk_text returns are exactly the
\* keys of the input whose text is not blank: a blank page yields no chunk, a
\* non-blank page yields at least one.
C18_PagesOfChunksAreNonBlankPages ==
    Chunked =>
        {result.res.value[i].page_number : i \in 1..Len(result.res.value)} =
            {call.pages_dict[j][1] : j \in {x \in 1..Len(call.pages_dict) :
                                               NonBlankText(call.pages_dict[x][2])}}

C18_Witness ==
    /\ Chunked
    /\ Len(call.pages_dict) = 2
    /\ call.pages_dict[1] = <<1, <<" ", "\n">> >>
    /\ NonBlankText(call.pages_dict[2][2])
    /\ Len(result.res.value) >= 1

\* C19: in the list chunk_text returns, page_number never decreases along
\* the list, whatever the order of the input keys (so the chunks of a page are
\* consecutive), and each content is a part of the normalized text of its page.
C19_PagesInAscendingOrder ==
    Chunked =>
        /\ \A i, j \in 1..Len(result.res.value) :
               i < j => result.res.value[i].page_number <= result.res.value[j].page_number
        /\ \A i \in 1..Len(result.res.value) :
               \E k \in 1..Len(call.pages_dict) :
                   /\ call.pages_dict[k][1] = result.res.value[i].page_number
                   /\ Contains(clean_text(call.pages_dict[k][2]),
                               result.res.value[i].content)

C19_Witness ==
    /\ Chunked
    /\ Len(call.pages_dict) = 2
    /\ call.pages_dict[1][1] > call.pages_dict[2][1]
    /\ Len(result.res.value) >= 2
    /\ result.res.value[1].page_number < result.res.value[Len(result.res.value)].page_number

\* the non-blank texts of the list handed to embed_batch, in their order
NonBlankTexts == SelectSeq(call.texts, NonBlankText)

\* C20: when embed_batch is given m >= 1 non-blank texts and a batch size
\* b >= 1 and returns, it has issued ceil(m / b) remote calls, the j-th call
\* carrying the j-th slice of at most b consecutive non-blank texts in their
\* original order, and it returns the vectors of the m texts in that order.
C20_BatchesAreConsecutiveSlices ==
    (/\ result.op = "embed_batch"
     /\ result.res.ok
     /\ call.max_batch_size >= 1
     /\ Len(NonBlankTexts) >= 1) =>
        LET m == Len(NonBlankTexts)
            b == call.max_batch_size
        IN  /\ Len(result.requests) = (m + b - 1) \div b
            /\ \A j \in 1..Len(result.requests) :
                   /\ Len(result.requests[j]) <= b
                   /\ result.requests[j] =
                          SubSeq(NonBlankTexts, (j - 1) * b + 1,
                                 IF j * b < m THEN j * b ELSE m)
            /\ result.res.value = [i \in 1..m |-> [embedding_of |-> NonBlankTexts[i]]]

C20_Witness ==
    /\ result.op = "embed_batch"
    /\ result.res.ok
    /\ call.texts = << <<"a">>, <<"b">>, <<"a">> >>
    /\ call.max_batch_size = 2
    /\ Len(result.requests) = 2
    /\ Len(result.res.value) = 3

\* C21: when the remote call of a group fails, embed_batch raises
\* EmbeddingServiceError with its batch prefix and returns no vector (what the
\* earlier groups returned is dropped), and the failing call is the last call
\* issued: the calls made are exactly the slices up to the failing group.
C21_FailedGroupAbortsTheBatch ==
    (result.op = "embed_batch" /\ result.failed) =>
        LET m == Len(NonBlankTexts)
            b == call.max_batch_size
        IN  /\ ~result.res.ok
            /\ result.res.exc.cls = "EmbeddingServiceError"
            /\ SubSeq(result.res.exc.msg, 1, Len(EMBED_BATCH_ERROR_PREFIX))
                   = EMBED_BATCH_ERROR_PREFIX
            /\ result.failed_at \in 1..((m + b - 1) \div b)
            /\ Len(result.requests) = result.failed_at
            /\ \A j \in 1..Len(result.requests) :
                   result.requests[j] =
                       SubSeq(NonBlankTexts, (j - 1) * b + 1,
                              IF j * b < m THEN j * b ELSE m)

C21_Witness ==
    /\ result.op = "embed_batch"
    /\ result.failed
    /\ call.texts = << <<"a">>, <<"b">>, <<"a">> >>
    /\ call.max_batch_size = 1
    /\ result.failed_at = 2
    /\ Len(result.requests) = 2
    /\ ~result.res.ok

\* similarity_search has returned a list
Searched == result.op = "similarity_search" /\ result.res.ok

\* the stored chunks that pass every filter of the call under examination
Qualifying ==
    {c \in ChunkIds :
        /\ chunks[c] # NoChunk
        /\ chunks[c].embedding # NULL
        /\ 100 - CosineDistance(chunks[c].embedding, call.embedding) >= call.min_score
        /\ call.document_id # None => chunks[c].document_id = call.document_id}

\* C22: every pair similarity_search returns is a stored chunk with a
\* non-null embedding, carries that chunk's similarity to the query vector,
\* which is at least min_score, and belongs to the requested document when
\* one is given; when no stored chunk qualifies the call returns the empty
\* list (it raises only what the database driver raised).
C22_ReturnedPairsPassEveryFilter ==
    /\ Searched =>
          \A i \in 1..Len(result.res.value) :
              LET item == result.res.value[i]
                  c == item.chunk.id
              IN  /\ chunks[c] # NoChunk
                  /\ chunks[c].embedding # NULL
                  /\ item.score = 100 - CosineDistance(chunks[c].embedding, call.embedding)
                  /\ item.score >= call.min_score
                  /\ call.document_id # None =>
                         /\ chunks[c].document_id = call.document_id
                         /\ item.chunk.document_id = call.document_id
    /\ (result.op = "similarity_search" /\ Qualifying = {}) =>
          \/ result.res = Ok(<<>>)
          \/ ~result.res.ok /\ result.res.exc.cls = "OperationalError"

C22_Witness ==
    /\ Searched
    /\ call.document_id = "d1"
    /\ call.min_score = 50
    /\ call.embedding = 1
    /\ call.top_k = 2
    /\ Len(result.res.value) = 1
    /\ \E c \in ChunkIds : chunks[c] # NoChunk /\ chunks[c].document_id = "d2"
                              /\ chunks[c].embedding = 0
    /\ \E c \in ChunkIds : chunks[c] # NoChunk /\ chunks[c].document_id = "d1"
                              /\ chunks[c].embedding = 3

\* C23: the list similarity_search returns holds min(top_k, number of
\* qualifying chunks) distinct qualifying chunks in descending order of
\* score, and no qualifying chunk left out scores strictly higher than a
\* returned one.
C23_HighestScoresFirst ==
    Searched =>
        LET l == result.res.value
            n == Cardinality(Qualifying)
        IN  /\ Len(l) = IF call.top_k <= n THEN call.top_k ELSE n
            /\ \A i \in 1..Len(l) : l[i].chunk.id \in Qualifying
            /\ \A i, j \in 1..Len(l) : i # j => l[i].chunk.id # l[j].chunk.id
            /\ \A i, j \in 1..Len(l) : i < j => l[i].score >= l[j].score
            /\ \A c \in Qualifying : (\A i \in 1..Len(l) : l[i].chunk.id # c) =>
                   \A i \in 1..Len(l) :
                       100 - CosineDistance(chunks[c].embedding, call.embedding)
                           <= l[i].score

C23_Witness ==
    /\ Searched
    /\ call.top_k = 1
    /\ Cardinality(Qualifying) = 2
    /\ Len(result.res.value) = 1
    /\ \E c \in Qualifying :
           100 - CosineDistance(chunks[c].embedding, call.embedding)
               < result.res.value[1].score

\* the blocks of the pairs from the i-th on: rank, page and content of each
RECURSIVE BlocksOfPairs(_, _)
BlocksOfPairs(pairs, i) ==
    IF i > Len(pairs) THEN <<>>
    ELSE (IF i > 1 THEN <<"\n\n">> ELSE <<>>)
         \o <<"[Fragmento", ToString(i), "- Pagina",
               ToString(pairs[i].chunk.page_number), "]">>
         \o pairs[i].chunk.content
         \o BlocksOfPairs(pairs, i + 1)

\* C24: given a non-empty list of (chunk, score) pairs as the retriever
\* returns them, format_context_from_chunks returns one block per pair in the
\* order of the list, the i-th block carrying the rank i, the page number
\* and the content of the i-th chunk.
C24_OneBlockPerPairInOrder ==
    (/\ result.op = "format_context_from_chunks"
     /\ call.chunks # <<>>
     /\ \A i \in 1..Len(call.chunks) : call.chunks[i].type = "tuple") =>
        /\ result.res.ok
        /\ result.res.value = BlocksOfPairs(call.chunks, 1)

\* C25: chunk_text builds its splitter from the caller's chunk_size and
\* overlap whenever they are supplied, whatever their value (overlap = 0
\* included), and from the defaults of the instance only when they are absent.
C25_SuppliedSizesAreUsed ==
    result.op = "chunk_text" =>
        /\ result.splitter.chunk_size =
               (IF call.chunk_size.given THEN call.chunk_size.value
                ELSE call.self.chunk_size) * CharsPerToken
        /\ result.splitter.chunk_overlap =
               (IF call.overlap.given THEN call.overlap.value
                ELSE call.self.chunk_overlap) * CharsPerToken

\* the current request has written its entry into the audit log
EntryWritten == calls.log = 1 /\ "log" \notin failed

\* C29: a request attempts the audit log at most once, and only after its
\* retrieval returned (and, when chunks were retrieved, after the language
\* model answered); the entry a request has written is the last one of the
\* log, the log holds at most one entry per request, and a request that has
\* written its entry ends with a response, never with an error.
C29_AuditLogOnlyOnResponsePaths ==
    /\ calls.log <= 1
    /\ Len(queryLogs) <= requests
    /\ calls.log = 1 =>
          /\ Retrieved
          /\ chunks_with_scores # <<>> => llm.called
    /\ EntryWritten =>
          /\ queryLogs # <<>>
          /\ queryLogs[Len(queryLogs)] = logged
          /\ pc \in {"return", "done"}
          /\ pc = "done" => outcome.kind = "response"
    /\ (pc = "done" /\ outcome.kind = "error") => ~EntryWritten

C29_Witness ==
    /\ pc = "done"
    /\ outcome.kind = "response"
    /\ EntryWritten
    /\ Retrieved
    /\ Len(queryLogs) = 1

\* C26: a document in status processing eventually leaves it (for ready or
\* failed, or by being deleted), whatever step of its ingestion fails.
C26_ProcessingEventuallyEnds ==
    \A d \in DocIds :
        (docRows[d].status = "processing") ~> (docRows[d].status # "processing")

\* C27: a document in status ready owns exactly total_chunks stored chunks,
\* their chunk_index values are exactly 0 .. total_chunks - 1, and each has
\* a non-null embedding.
C27_ReadyDocumentOwnsItsChunks ==
    \A d \in DocIds :
        docRows[d].status = "ready" =>
            /\ Cardinality(ChunksOf(d)) = docRows[d].total_chunks
            /\ {chunks[c].chunk_index : c \in ChunksOf(d)}
                   = 0..(docRows[d].total_chunks - 1)
            /\ \A c \in ChunksOf(d) : chunks[c].embedding # NULL

\* C28: the list a retrieval returns to answer_question holds only chunks
\* whose document is in status ready at the time of the search.
C28_RetrievalSeesOnlyReadyDocuments ==
    [][(pc = "retrieve" /\ pc' # "retrieve") =>
          \A i \in 1..Len(chunks_with_scores') :
              \E d \in DocIds :
                  /\ d = chunks_with_scores'[i].chunk.document_id
                  /\ docRows[d].status = "ready"]_vars

\* C30: once an upload request has ended, the temporary file it created is
\* gone, whether the extraction succeeded or failed.
C30_TemporaryFileRemoved ==
    upload.pc = "done" => upload.temp_file # "exists"

====
